---- MODULE Spec2Model ----
(***************************************************************************)
(* Audio iterators of speech_foundation_models (data/audio_iterators.py)   *)
(* and the Whisper generation driver (cli/whisper_gen.py).                 *)
(*                                                                         *)
(* Strings that are built by joining parts with "_" (the ids, the names of *)
(* the Librilight tree, the Voxpopuli event ids) are modelled as the       *)
(* sequence of their "_"-separated tokens: a + "_" + b is a \o b, and      *)
(* a + "__" + b is a \o <<"">> \o b (an empty token between two "_").      *)
(* Audio content is modelled by its sampling rate and its number of        *)
(* frames; a decoded array is the range [from, to) of frames it holds.     *)
(***************************************************************************)
EXTENDS Integers, Sequences, FiniteSets, TLC

VARIABLES
    audio_iterator,   \* the AudioIterator subclass used ("voxpopuli" | "librilight")
    config,           \* the parsed YAML configuration document (key -> value)
    sampling_rate,    \* the target sampling rate given to the constructor
    corpus,           \* the manifest rows (Voxpopuli) or the file listing (Librilight)
    output_file,      \* the TSV at the output path: [exists, lines]
    obj,              \* the iterator object: "none" | "built" | "failed"
    error,            \* the last error raised: [kind, key]
    samples_skipper,  \* self.samples_skipper: [attached, generated_ids]
    pc,               \* the generator: "unstarted" | "running" | "done" | "raised"
    pos,              \* index in corpus of the next row / file to examine
    cur,              \* the utterance being processed and the records it yielded
    at_yield,         \* TRUE when the generator is suspended (control is with the consumer)
    ids,              \* the ids of the records yielded so far, in order
    events,           \* the calls made while examining the last row / file / chunk
                      \* (manifest adapter: the calls of the pass so far)
    attached_before,  \* a skipper was attached before the first pull
    run,              \* driver: number of times main() was started
    written,          \* driver: number of rows main() wrote in this run
    prior_ids         \* driver: ids the output file held when this run started

vars == <<audio_iterator, config, sampling_rate, corpus, output_file, obj, error,
          samples_skipper, pc, pos, cur, at_yield, ids, events, attached_before,
          run, written, prior_ids>>

iter_vars == <<pc, pos, cur, at_yield, ids, events>>
driver_vars == <<run, written, prior_ids>>
env_vars == <<audio_iterator, config, sampling_rate, corpus>>

----------------------------------------------------------------------------
(* Bounds of the model *)

\* longest Voxpopuli manifest (rows)
MaxRows == 2
\* largest Librilight listing (files)
MaxFiles == 2
\* most data rows of a resume artifact
MaxArtRows == 2
\* most runs of the driver on one output file
MaxRuns == 2
\* longest audio file, in multiples of 30 seconds
MaxMult == 2

MaxSegments == 3

\* Whisper accepts at most 30 seconds of audio
MaxSeconds == 30

SamplingRates == {1, 2}

SeqsUpTo(S, n) == UNION {[1..k -> S] : k \in 0..n}

Range(s) == {s[k] : k \in 1..Len(s)}

----------------------------------------------------------------------------
(* Audio files and soundfile.read *)

\* lengths (frames) of the audio files of the corpora at rate r: empty, one frame,
\* whole multiples of 30 seconds, a frame more than 30 seconds, and two seconds
\* more than the longest multiple
FileFrames(r) ==
    {0, 1, MaxSeconds * r + 1, MaxSeconds * MaxMult * r + 2 * r}
    \cup {MaxSeconds * r * k : k \in 1..MaxMult}

NoFile == [exists |-> FALSE, rate |-> 0, frames |-> 0]

\* what a path of the corpus may hold: an audio file of some rate and length, or
\* nothing
FileContents ==
    {[exists |-> TRUE, rate |-> r, frames |-> n] :
        <<r, n>> \in UNION {{r} \X FileFrames(r) : r \in SamplingRates}}
    \cup {NoFile}

NoError == [kind |-> "none", key |-> ""]

Min(a, b) == IF a <= b THEN a ELSE b

\* soundfile.read(filename, frames=n): the first n frames, all of them when n = -1
SoundfileRead(content, frames) ==
    [from |-> 0,
     to |-> IF frames < 0 THEN content.frames ELSE Min(frames, content.frames)]

\* _read_audio_file without its assertion on the sampling rate
ReadAudioErrorAnyRate(content, rate) ==
    IF ~content.exists THEN [kind |-> "RuntimeError", key |-> "open"] ELSE NoError

\* AudioIterator._read_audio_file: the error it raises, NoError when it returns
ReadAudioError(content, rate) ==
    IF ~content.exists THEN [kind |-> "RuntimeError", key |-> "open"]
    ELSE IF content.rate # rate THEN [kind |-> "AssertionError", key |-> "sampling rate"]
    ELSE NoError

\* AudioIterator._read_audio_file: the array it returns
ReadAudioFile(content, additional_read_args) ==
    SoundfileRead(content, additional_read_args)

\* raw[a:b] of Python: both ends are clamped to the length of raw
Slice(raw, a, b) ==
    LET n == raw.to - raw.from
        lo == Min(a, n)
        hi == Min(b, n)
    IN  [from |-> raw.from + lo, to |-> raw.from + (IF hi < lo THEN lo ELSE hi)]

Shape(raw) == raw.to - raw.from

----------------------------------------------------------------------------
(* Ids *)

\* a + "_" + b
Join(a, b) == a \o b

\* str(i) for the chunk indices of the model
Str(i) == <<"0", "1", "2", "3", "4", "5", "6", "7", "8", "9">>[i + 1]

\* VoxpopuliIterator.__iter__: row_id = f"{row['event_id']}_{row['segment_no']}"
VoxRowId(row) == Join(row.event_id, row.segment_no)

\* row['event_id'].split("_")[1]: the second token from the left
RowLangFromLeft(event_id) == event_id[2]

\* VoxpopuliIterator.__iter__: row['event_id'].rsplit("_", maxsplit=1)[1].strip()
RowLang(event_id) == event_id[Len(event_id)]

\* VoxpopuliIterator.__iter__: row_year = row['event_id'][:4]
RowYear(event_id) ==
    IF event_id[1] = "20200113-0900-PLENARY" THEN "2020"
    ELSE IF event_id[1] = "20190305-1500-PLENARY" THEN "2019"
    ELSE event_id[1]

\* LibrilightIterator.__iter__: row_id = f"{speaker_id}_{book_id}_{flac_file.stem}"
LibriRowId(file) == Join(Join(file.speaker, file.book), file.stem)

\* LibrilightIterator.__iter__: new_id = row_id + f"__{i}"
ChunkId(row_id, i) == row_id \o <<"">> \o <<Str(i)>>

----------------------------------------------------------------------------
(* Corpora *)

Langs == {"it", "fr"}

\* rows of the manifest: the language of an event id is its last token, also when
\* the event id holds another token that looks like a language.  Every event id
\* holds an underscore and no field has surrounding whitespace (strip() leaves
\* the tokens as they are)
ManifestRows ==
    {[event_id |-> <<"20200113-0900-PLENARY", "it">>, segment_no |-> <<"0">>],
     [event_id |-> <<"20200113-0900-PLENARY", "it">>, segment_no |-> <<"1">>],
     [event_id |-> <<"20190305-1500-PLENARY", "it", "fr">>, segment_no |-> <<"0">>]}

Manifests == SeqsUpTo(ManifestRows, MaxRows)

LibriFiles ==
    {[speaker |-> <<"111">>, book |-> <<"3">>, stem |-> <<"utt", "0000">>],
     [speaker |-> <<"111">>, book |-> <<"3">>, stem |-> <<"utt", "0001">>],
     [speaker |-> <<"111">>, book |-> <<"9">>, stem |-> <<"utt", "0000">>]}

SameDir(f, g) == f.speaker = g.speaker /\ f.book = g.book

\* what the three nested iterdir() loops enumerate: distinct files, those of one
\* speaker/book directory next to each other, in any order
Listings ==
    {l \in SeqsUpTo(LibriFiles, MaxFiles) :
        /\ \A i, j \in 1..Len(l) : i # j => l[i] # l[j]
        /\ \A i, j, k \in 1..Len(l) : (i < j /\ j < k /\ SameDir(l[i], l[k])) => SameDir(l[i], l[j])}

\* the segments a segment-definition document may hold: the key of the audio
\* file and the timing in seconds
Segments ==
    {[wav |-> "aa", offset |-> 0, duration |-> 1],
     [wav |-> "aa", offset |-> 1, duration |-> 30],
     [wav |-> "bb", offset |-> 0, duration |-> 1]}

\* the segment-definition documents: a list of segments, those of one file not
\* necessarily next to each other
SegmentDefinitions == SeqsUpTo(Segments, MaxSegments)

----------------------------------------------------------------------------
(* Configuration documents *)

EmptyConf == [k \in {} |-> ""]

Opt(key, values) == {EmptyConf} \cup {key :> v : v \in values}

TsvSegments == <<"resources", "voxpopuli.tsv">>

Basedir == <<"resources", "librilight">>

VoxConfigs ==
    {a @@ b @@ c : a \in Opt("lang", Langs), b \in Opt("tsv_segments", {TsvSegments}),
                   c \in Opt("truncate_exceeding_30s", BOOLEAN)}

LibriConfigs ==
    {a @@ b : a \in Opt("basedir", {Basedir}), b \in Opt("split_if_longer_than_30s", BOOLEAN)}

WavBasedir == <<"wav_basedir">>

YamlSegmentDefinition == <<"resources", "shas_sentence_def.yaml">>

YamlConfigs ==
    {a @@ b : a \in Opt("basedir", {WavBasedir}),
              b \in Opt("yaml_segment_definition", {YamlSegmentDefinition})}

\* os.path.dirname
Dirname(path) == SubSeq(path, 1, Len(path) - 1)

\* dict.get(key, default)
ConfGet(conf, key, default) == IF key \in DOMAIN conf THEN conf[key] ELSE default

----------------------------------------------------------------------------
(* Resume artifacts: the TSV files at the output path *)

IdField == <<"id">>

Header == <<IdField, <<"language">>, <<"text">>>>

HeaderWithoutId == <<<<"language">>, <<"text">>>>

\* the ids a prior run over a segment-definition document may have written
YamlArtifactIds == <<<<"aa", "0">>, <<"aa", "1">>, <<"bb", "0">>>>

\* the ids a prior run may have written, per corpus
ArtifactIds(it) ==
    IF it = "yaml" THEN YamlArtifactIds
    ELSE IF it = "voxpopuli"
    THEN <<<<"20200113-0900-PLENARY", "it", "0">>,
           <<"20200113-0900-PLENARY", "it", "1">>,
           <<"20190305-1500-PLENARY", "it", "fr", "0">>>>
    ELSE <<<<"111", "3", "utt", "0000">>,
           <<"111", "3", "utt", "0000", "", "0">>,
           <<"111", "3", "utt", "0000", "", "1">>,
           <<"111", "9", "utt", "0000">>>>

\* row of an artifact with the given header for one id
ArtifactRow(header, id) ==
    [k \in 1..Len(header) |-> IF header[k] = IdField THEN id ELSE <<"aa">>]

Increasing(n, m) ==
    {s \in SeqsUpTo(1..n, m) : \A i, j \in 1..Len(s) : i < j => s[i] < s[j]}

ArtifactLines(it) ==
    {<<>>}
    \cup {<<Header>> \o [k \in 1..Len(s) |-> ArtifactRow(Header, ArtifactIds(it)[s[k]])] :
            s \in Increasing(Len(ArtifactIds(it)), MaxArtRows)}
    \cup {<<HeaderWithoutId>> \o [k \in 1..n |-> ArtifactRow(HeaderWithoutId, <<>>)] :
            n \in 0..MaxArtRows}

OutputFiles(it) ==
    {[exists |-> FALSE, lines |-> <<>>]}
    \cup {[exists |-> TRUE, lines |-> l] : l \in ArtifactLines(it)}

\* the data rows csv.DictReader yields: the first line is the header
DataRows(lines) == IF Len(lines) = 0 THEN <<>> ELSE Tail(lines)

Fieldnames(lines) == IF Len(lines) = 0 THEN <<>> ELSE lines[1]

\* segm['id'] of a csv.DictReader row: the field under the last column named id,
\* None (modelled as <<>>) when the row is too short to have it
RowField(header, row, name) ==
    LET k == CHOOSE k \in 1..Len(header) :
                 header[k] = name /\ \A j \in 1..Len(header) : header[j] = name => j <= k
    IN  IF k <= Len(row) THEN row[k] ELSE <<>>

\* GeneratedSamplesSkipper._load_generated_ids raises KeyError('id'): a data row
\* exists and no column is named id
LoadRaises(lines) ==
    Len(DataRows(lines)) > 0 /\ IdField \notin Range(Fieldnames(lines))

\* GeneratedSamplesSkipper._load_generated_ids
LoadGeneratedIds(lines) ==
    {RowField(Fieldnames(lines), DataRows(lines)[k], IdField) : k \in 1..Len(DataRows(lines))}

\* GeneratedSamplesSkipper.should_skip
ShouldSkip(skipper, sample_id) == sample_id \in skipper.generated_ids

\* should_skip_sample with the test on the skipper inverted (`is None and`)
ShouldSkipSampleWhenNone(skipper, sample_id) ==
    ~skipper.attached /\ ShouldSkip(skipper, sample_id)

\* AudioIterator.should_skip_sample
ShouldSkipSample(skipper, sample_id) ==
    skipper.attached /\ ShouldSkip(skipper, sample_id)

NoSkipper == [attached |-> FALSE, generated_ids |-> {}]

----------------------------------------------------------------------------
(* Construction: AudioIterator.__init__ and the subclasses' __init__ *)

\* the keys the manifest adapter requires
YamlRequiredKeys == <<"basedir", "yaml_segment_definition">>

\* the keys each subclass asks _get_conf for, in the order it asks
RequiredKeys(it) ==
    IF it = "voxpopuli" THEN <<"lang", "tsv_segments">>
    ELSE IF it = "yaml" THEN YamlRequiredKeys
    ELSE <<"basedir">>

\* _get_conf without its assertion
GetConfNeverFails(conf, attr) == FALSE

\* AudioIterator._get_conf: the assertion `attr in self.config` fails
GetConfFails(conf, attr) == attr \notin DOMAIN conf

\* the first _get_conf call of the constructor that fails, 0 when none does
FirstMissing(it, conf) ==
    LET keys == RequiredKeys(it)
        bad == {k \in 1..Len(keys) : GetConfFails(conf, keys[k])}
    IN  IF bad = {} THEN 0 ELSE CHOOSE k \in bad : \A j \in bad : k <= j

\* the frames read argument is never set
AdditionalReadArgsUnset(it, conf, rate) == -1

\* VoxpopuliIterator.__init__: self._additional_read_args["frames"], -1 when unset
AdditionalReadArgs(it, conf, rate) ==
    IF it = "voxpopuli" /\ ConfGet(conf, "truncate_exceeding_30s", TRUE)
    THEN rate * MaxSeconds
    ELSE -1

\* LibrilightIterator.__init__: self.split_if_longer_than_30s
SplitIfLongerThan30s(conf) == ConfGet(conf, "split_if_longer_than_30s", TRUE)

\* LibrilightIterator.__init__: self.max_segment_length
MaxSegmentLength(rate) == rate * MaxSeconds

\* row_id: the id of the row / file examined; disk: what its audio path holds;
\* content_length, num_chunks, i: the locals of LibrilightIterator.__iter__;
\* chunking: inside the chunk loop; recs: the records yielded for it so far
NoCur ==
    [row_id |-> <<>>, path |-> <<>>, disk |-> NoFile, content_length |-> 0,
     num_chunks |-> 0, i |-> 0, chunking |-> FALSE, recs |-> <<>>]

\* args.audio_iterator(args.audio_iterator_config, sampling_rate)
Construct ==
    /\ obj = "none"
    /\ LET k == FirstMissing(audio_iterator, config)
       IN  IF k = 0
           THEN /\ obj' = "built"
                /\ error' = NoError
           ELSE /\ obj' = "failed"
                /\ error' = [kind |-> "AssertionError", key |-> RequiredKeys(audio_iterator)[k]]
    /\ UNCHANGED <<env_vars, output_file, samples_skipper, iter_vars, attached_before,
                   driver_vars>>

\* a skipper that adds the ids of the artifact to those it already holds
GeneratedSamplesSkipperMerged(lines) ==
    [attached |-> TRUE,
     generated_ids |-> samples_skipper.generated_ids \cup LoadGeneratedIds(lines)]

\* GeneratedSamplesSkipper(output_file): the object add_generated_samples_skipper
\* stores in self.samples_skipper
GeneratedSamplesSkipper(lines) ==
    [attached |-> TRUE, generated_ids |-> LoadGeneratedIds(lines)]

\* AudioIterator.add_generated_samples_skipper called with a path that holds file
Attach(file) ==
    /\ obj = "built"
    /\ at_yield
    /\ pc \in {"unstarted", "running"}
    /\ output_file' = file
    /\ IF ~file.exists
       THEN /\ error' = [kind |-> "FileNotFoundError", key |-> "output_file"]
            /\ UNCHANGED <<samples_skipper, attached_before>>
       ELSE IF LoadRaises(file.lines)
       THEN /\ error' = [kind |-> "KeyError", key |-> "id"]
            /\ UNCHANGED <<samples_skipper, attached_before>>
       ELSE /\ samples_skipper' = GeneratedSamplesSkipper(file.lines)
            /\ attached_before' = (attached_before \/ pc = "unstarted")
            /\ error' = NoError
    /\ UNCHANGED <<env_vars, obj, iter_vars, driver_vars>>

\* AudioIterator.add_generated_samples_skipper(output_file), called by the owner of
\* the iterator before iteration or between two pulls, the artifact being the
\* same at every call
AddGeneratedSamplesSkipper == Attach(output_file)

\* the artifacts a run of main() leaves, per adapter: the header and a row per
\* record
WrittenFiles ==
    [it \in {"voxpopuli", "librilight"} |->
        {file \in OutputFiles(it) :
            file.exists /\ Len(file.lines) > 0 /\ file.lines[1] = Header}]

\* AudioIterator.add_generated_samples_skipper(output_file), called before
\* iteration or between two pulls, the artifact at the path being whatever a
\* prior run has written there by the time of the call
AddGeneratedSamplesSkipperLate == \E file \in WrittenFiles[audio_iterator] : Attach(file)

----------------------------------------------------------------------------
(* Iteration: one action per row / file / chunk examined by the generator *)

Event(op, id) == [op |-> op, id |-> id]

Record(id, raw) == [id |-> id, raw |-> raw, sampling_rate |-> sampling_rate]

\* the file is read before the skip check is made
VoxCallsReadFirst(skipped) == <<"_read_audio_file", "should_skip_sample">>

\* the calls VoxpopuliIterator.__iter__ makes for a row of the configured language,
\* in order: the skip check, then the read when the row is not skipped
VoxCalls(skipped) ==
    IF skipped THEN <<"should_skip_sample">>
    ELSE <<"should_skip_sample", "_read_audio_file">>

\* f"{self.basedir}/{row_lang}/{row_year}/{row_id}.ogg"
VoxPath(conf, row) ==
    Dirname(conf["tsv_segments"])
        \o <<RowLang(row.event_id), RowYear(row.event_id), [stem |-> VoxRowId(row), ext |-> "ogg"]>>

\* flac_file.as_posix()
LibriPath(conf, file) ==
    conf["basedir"] \o <<file.speaker, file.book, [stem |-> file.stem, ext |-> "flac"]>>

Running == obj = "built" /\ pc \in {"unstarted", "running"}

\* the generator moves on to the next row / file without yielding
Continue(evs) ==
    /\ pc' = "running"
    /\ pos' = pos + 1
    /\ cur' = NoCur
    /\ at_yield' = FALSE
    /\ events' = evs
    /\ UNCHANGED <<ids, error>>

\* an exception leaves the generator
Raise(evs, err, examined) ==
    /\ pc' = "raised"
    /\ error' = err
    /\ cur' = examined
    /\ at_yield' = TRUE
    /\ events' = evs
    /\ UNCHANGED <<pos, ids>>

\* VoxpopuliIterator.__iter__: the body of `for row in reader`
VoxRow ==
    /\ Running
    /\ audio_iterator = "voxpopuli"
    /\ pos <= Len(corpus)
    /\ LET row == corpus[pos]
           row_lang == RowLang(row.event_id)
           row_id == VoxRowId(row)
           skipped == ShouldSkipSample(samples_skipper, row_id)
           calls == VoxCalls(skipped)
           evs == [k \in 1..Len(calls) |-> Event(calls[k], row_id)]
           frames == AdditionalReadArgs(audio_iterator, config, sampling_rate)
       IN  IF row_lang # config["lang"]
           THEN Continue(<<>>)
           ELSE IF "_read_audio_file" \notin Range(calls)
           THEN Continue(evs)
           ELSE \E content \in FileContents :
                   LET err == ReadAudioError(content, sampling_rate)
                       rec == Record(row_id, ReadAudioFile(content, frames))
                       examined == [NoCur EXCEPT !.row_id = row_id,
                                                 !.path = VoxPath(config, row),
                                                 !.disk = content]
                   IN  IF err # NoError THEN Raise(evs, err, examined)
                       ELSE IF skipped THEN Continue(evs)
                       ELSE /\ pc' = "running"
                            /\ pos' = pos + 1
                            /\ cur' = [examined EXCEPT !.content_length = Shape(rec.raw),
                                                       !.recs = <<rec>>]
                            /\ ids' = Append(ids, row_id)
                            /\ events' = Append(evs, Event("yield", row_id))
                            /\ at_yield' = TRUE
                            /\ UNCHANGED error
    /\ UNCHANGED <<env_vars, output_file, obj, samples_skipper, attached_before, driver_vars>>

\* content_length // self.max_segment_length
NumChunksFloor(content_length, max_segment_length) ==
    content_length \div max_segment_length

\* math.ceil(content_length / self.max_segment_length)
NumChunks(content_length, max_segment_length) ==
    (content_length + max_segment_length - 1) \div max_segment_length

\* start_chunk counted in chunks yielded so far instead of the chunk index
StartChunkByYielded(max_segment_length, i) == max_segment_length * Len(cur.recs)

\* start_chunk = self.max_segment_length * i
StartChunk(max_segment_length, i) == max_segment_length * i

\* end_chunk = min(self.max_segment_length * (i + 1), content_length)
EndChunk(max_segment_length, i, content_length) ==
    Min(max_segment_length * (i + 1), content_length)

\* no skip check on the id of the whole file
BaseNeverSkipped(skipper, row_id) == FALSE

\* LibrilightIterator.__iter__: the skip check on the id of the whole file, made
\* before the file is read
BaseSkipped(skipper, row_id) == ShouldSkipSample(skipper, row_id)

\* LibrilightIterator.__iter__: the body of `for flac_file in book_path.iterdir()`
\* up to the chunk loop (or to the yield of the whole file)
LibriFile ==
    /\ Running
    /\ audio_iterator = "librilight"
    /\ ~cur.chunking
    /\ pos <= Len(corpus)
    /\ LET file == corpus[pos]
           row_id == LibriRowId(file)
           check == <<Event("should_skip_sample", row_id)>>
           evs == Append(check, Event("_read_audio_file", row_id))
       IN  \E content \in FileContents :
               IF BaseSkipped(samples_skipper, row_id)
               THEN /\ pc' = "running"
                    /\ pos' = pos + 1
                    /\ cur' = [NoCur EXCEPT !.row_id = row_id, !.disk = content]
                    /\ at_yield' = FALSE
                    /\ events' = check
                    /\ UNCHANGED <<ids, error>>
               ELSE
                   LET err == ReadAudioError(content, sampling_rate)
                       raw_content ==
                           ReadAudioFile(content,
                               AdditionalReadArgs(audio_iterator, config, sampling_rate))
                       content_length == Shape(raw_content)
                       num_chunks == NumChunks(content_length, MaxSegmentLength(sampling_rate))
                       examined == [NoCur EXCEPT !.row_id = row_id,
                                                 !.path = LibriPath(config, file),
                                                 !.disk = content]
                       started == [examined EXCEPT !.content_length = content_length,
                                                   !.num_chunks = num_chunks]
                   IN  IF err # NoError THEN Raise(evs, err, examined)
                       ELSE IF SplitIfLongerThan30s(config) /\ num_chunks > 1
                       THEN /\ pc' = "running"
                            /\ cur' = [started EXCEPT !.chunking = TRUE]
                            /\ at_yield' = FALSE
                            /\ events' = evs
                            /\ UNCHANGED <<pos, ids, error>>
                       ELSE /\ pc' = "running"
                            /\ pos' = pos + 1
                            /\ cur' = [started EXCEPT !.recs = <<Record(row_id, raw_content)>>]
                            /\ ids' = Append(ids, row_id)
                            /\ events' = Append(evs, Event("yield", row_id))
                            /\ at_yield' = TRUE
                            /\ UNCHANGED error
    /\ UNCHANGED <<env_vars, output_file, obj, samples_skipper, attached_before, driver_vars>>

\* LibrilightIterator.__iter__: the body of `for i in range(num_chunks)`
LibriChunk ==
    /\ Running
    /\ audio_iterator = "librilight"
    /\ cur.chunking
    /\ LET i == cur.i
           new_id == ChunkId(cur.row_id, i)
           check == <<Event("should_skip_sample", new_id)>>
           max_len == MaxSegmentLength(sampling_rate)
           start_chunk == StartChunk(max_len, i)
           end_chunk == EndChunk(max_len, i, cur.content_length)
           raw_content == [from |-> 0, to |-> cur.content_length]
           rec == Record(new_id, Slice(raw_content, start_chunk, end_chunk))
           last == (i + 1 >= cur.num_chunks)
           skipped == ShouldSkipSample(samples_skipper, new_id)
       IN  /\ cur' = [cur EXCEPT !.i = i + 1,
                                 !.chunking = ~last,
                                 !.recs = IF skipped THEN @ ELSE Append(@, rec)]
           /\ pos' = IF last THEN pos + 1 ELSE pos
           /\ ids' = IF skipped THEN ids ELSE Append(ids, new_id)
           /\ events' = IF skipped THEN check ELSE Append(check, Event("yield", new_id))
           /\ at_yield' = ~skipped
           /\ UNCHANGED <<pc, error>>
    /\ UNCHANGED <<env_vars, output_file, obj, samples_skipper, attached_before, driver_vars>>

\* f"{self.basedir}/{wav}.wav"
YamlPath(conf, wav) == conf["basedir"] \o <<[stem |-> <<wav>>, ext |-> "wav"]>>

\* the segments of the document that name the file wav, in document order
SegmentsOf(doc, wav) == SelectSeq(doc, LAMBDA seg : seg.wav = wav)

\* f"{wav}_{i}"
SegmentId(wav, i) == <<wav, Str(i)>>

\* the samples of a segment: raw[offset * rate : (offset + duration) * rate]
SegmentSlice(raw, seg, rate) ==
    Slice(raw, seg.offset * rate, (seg.offset + seg.duration) * rate)

\* groups are runs of adjacent segments of one file: the next group starts at the
\* next segment that names another file than the current one
NextGroupAdjacent(doc, k) ==
    LET later == {j \in (k + 1)..Len(doc) : doc[j].wav # doc[k].wav}
    IN  IF later = {} THEN Len(doc) + 1 ELSE CHOOSE j \in later : \A m \in later : j <= m

\* the position of the first segment of the next group: the next segment whose
\* file no earlier segment names, past the end of the document when none is left
NextGroup(doc, k) ==
    LET later == {j \in (k + 1)..Len(doc) : \A m \in 1..(j - 1) : doc[m].wav # doc[j].wav}
    IN  IF later = {} THEN Len(doc) + 1 ELSE CHOOSE j \in later : \A m \in later : j <= m

\* manifest adapter: the file of the next group is decoded, once for all its
\* segments
YamlFile ==
    /\ Running
    /\ audio_iterator = "yaml"
    /\ ~cur.chunking
    /\ pos <= Len(corpus)
    /\ LET wav == corpus[pos].wav
           evs == Append(events, Event("_read_audio_file", <<wav>>))
       IN  \E content \in FileContents :
               LET err == ReadAudioError(content, sampling_rate)
                   raw_content ==
                       ReadAudioFile(content,
                           AdditionalReadArgs(audio_iterator, config, sampling_rate))
                   examined == [NoCur EXCEPT !.row_id = <<wav>>,
                                             !.path = YamlPath(config, wav),
                                             !.disk = content]
               IN  IF err # NoError THEN Raise(evs, err, examined)
                   ELSE /\ pc' = "running"
                        /\ cur' = [examined EXCEPT
                                      !.content_length = Shape(raw_content),
                                      !.num_chunks = Len(SegmentsOf(corpus, wav)),
                                      !.chunking = TRUE]
                        /\ at_yield' = FALSE
                        /\ events' = evs
                        /\ UNCHANGED <<pos, ids, error>>
    /\ UNCHANGED <<env_vars, output_file, obj, samples_skipper, attached_before, driver_vars>>

\* manifest adapter: the next segment of the decoded file is skipped or yielded
YamlSegment ==
    /\ Running
    /\ audio_iterator = "yaml"
    /\ cur.chunking
    /\ LET i == cur.i
           wav == cur.row_id[1]
           seg == SegmentsOf(corpus, wav)[i + 1]
           new_id == SegmentId(wav, i)
           check == Append(events, Event("should_skip_sample", new_id))
           raw_content == [from |-> 0, to |-> cur.content_length]
           rec == Record(new_id, SegmentSlice(raw_content, seg, sampling_rate))
           last == (i + 1 >= cur.num_chunks)
           skipped == ShouldSkipSample(samples_skipper, new_id)
       IN  /\ cur' = [cur EXCEPT !.i = i + 1,
                                 !.chunking = ~last,
                                 !.recs = IF skipped THEN @ ELSE Append(@, rec)]
           /\ pos' = IF last THEN NextGroup(corpus, pos) ELSE pos
           /\ ids' = IF skipped THEN ids ELSE Append(ids, new_id)
           /\ events' = IF skipped THEN check ELSE Append(check, Event("yield", new_id))
           /\ at_yield' = ~skipped
           /\ UNCHANGED <<pc, error>>
    /\ UNCHANGED <<env_vars, output_file, obj, samples_skipper, attached_before, driver_vars>>

\* the loops are exhausted: the generator returns (StopIteration)
Exhausted ==
    /\ Running
    /\ ~cur.chunking
    /\ pos > Len(corpus)
    /\ pc' = "done"
    /\ at_yield' = TRUE
    /\ events' = <<>>
    /\ UNCHANGED <<pos, cur, ids, error>>
    /\ UNCHANGED <<env_vars, output_file, obj, samples_skipper, attached_before, driver_vars>>

----------------------------------------------------------------------------
(* The iterator used through its own interface (as the unit tests use it) *)

Init ==
    /\ audio_iterator \in {"voxpopuli", "librilight"}
    /\ config \in (IF audio_iterator = "voxpopuli" THEN VoxConfigs ELSE LibriConfigs)
    /\ sampling_rate \in SamplingRates
    /\ corpus \in (IF audio_iterator = "voxpopuli" THEN Manifests ELSE Listings)
    /\ output_file \in OutputFiles(audio_iterator)
    /\ obj = "none"
    /\ error = NoError
    /\ samples_skipper = NoSkipper
    /\ pc = "unstarted"
    /\ pos = 1
    /\ cur = NoCur
    /\ at_yield = TRUE
    /\ ids = <<>>
    /\ events = <<>>
    /\ attached_before = FALSE
    /\ run = 0
    /\ written = 0
    /\ prior_ids = {}

Next ==
    \/ Construct
    \/ AddGeneratedSamplesSkipper
    \/ VoxRow
    \/ LibriFile
    \/ LibriChunk
    \/ Exhausted

Spec == Init /\ [][Next]_vars

----------------------------------------------------------------------------
(* The iterator with skippers attached from an artifact that changes *)

\* one target rate, a configuration document with the required keys and the
\* defaults for the others, no artifact at the output path yet
InitAttach ==
    /\ Init
    /\ sampling_rate = 1
    /\ DOMAIN config = Range(RequiredKeys(audio_iterator))
    /\ ~output_file.exists

NextAttach ==
    \/ Construct
    \/ AddGeneratedSamplesSkipperLate
    \/ VoxRow
    \/ LibriFile
    \/ LibriChunk
    \/ Exhausted

SpecAttach == InitAttach /\ [][NextAttach]_vars

----------------------------------------------------------------------------
(* The manifest adapter, selected by name among the available adapters *)

AudioIteratorClass == <<"Audio", "Iterator">>

\* the manifest adapter class of the module audio_iterators
YamlIteratorClass == [name |-> <<"Yaml", "Iterator">>, bases |-> {AudioIteratorClass}]

\* inspect.getmembers(audio_iterators, inspect.isclass): the classes of the
\* module, their names as the words they are made of
ModuleClasses ==
    {[name |-> AudioIteratorClass, bases |-> {}],
     [name |-> <<"Samples", "Skipper">>, bases |-> {}],
     [name |-> <<"Generated", "Samples", "Skipper">>, bases |-> {<<"Samples", "Skipper">>}],
     [name |-> <<"Voxpopuli", "Iterator">>, bases |-> {AudioIteratorClass}],
     [name |-> <<"Librilight", "Iterator">>, bases |-> {AudioIteratorClass}],
     YamlIteratorClass}

\* issubclass(class_obj, base)
IsSubclass(class_obj, base) == class_obj.name = base \/ base \in class_obj.bases

\* str.lower() on the words of the class names
Lower(word) ==
    CASE word = "Voxpopuli" -> "voxpopuli"
      [] word = "Librilight" -> "librilight"
      [] word = "Yaml" -> "yaml"
      [] OTHER -> word

\* name.split(".")[-1].replace("Iterator", "").strip().lower()
ActualName(name) == Lower(SelectSeq(name, LAMBDA word : word # "Iterator")[1])

\* collect_audio_iterators(): the names under which the adapters are available
CollectAudioIterators ==
    {ActualName(class_obj.name) :
        class_obj \in {c \in ModuleClasses :
                          IsSubclass(c, AudioIteratorClass) /\ c.name # AudioIteratorClass}}

InitYaml ==
    /\ audio_iterator = "yaml"
    /\ config \in YamlConfigs
    /\ sampling_rate \in SamplingRates
    /\ corpus \in SegmentDefinitions
    /\ output_file \in OutputFiles(audio_iterator)
    /\ obj = "none"
    /\ error = NoError
    /\ samples_skipper = NoSkipper
    /\ pc = "unstarted"
    /\ pos = 1
    /\ cur = NoCur
    /\ at_yield = TRUE
    /\ ids = <<>>
    /\ events = <<>>
    /\ attached_before = FALSE
    /\ run = 0
    /\ written = 0
    /\ prior_ids = {}

NextYaml ==
    \/ Construct
    \/ AddGeneratedSamplesSkipper
    \/ YamlFile
    \/ YamlSegment
    \/ Exhausted

SpecYaml == InitYaml /\ [][NextYaml]_vars

----------------------------------------------------------------------------
(* The driver: main() of cli/whisper_gen.py, run and re-run on one output file *)

\* the ids in the id column of a TSV
IdColumn(lines) ==
    IF IdField \in Range(Fieldnames(lines)) THEN LoadGeneratedIds(lines) ELSE {}

\* open(args.output, 'w') and writer.writeheader(): what the file holds afterwards
OpenForWriting(file) == [exists |-> TRUE, lines |-> <<Header>>]

\* the skipper main() gives the iterator it has built
MainSkipper(file) == NoSkipper

\* main(), from the construction of the iterator to writer.writeheader()
Main ==
    /\ obj = "none"
    /\ run < MaxRuns
    /\ run' = run + 1
    /\ written' = 0
    /\ prior_ids' = IdColumn(output_file.lines)
    /\ LET k == FirstMissing(audio_iterator, config)
       IN  IF k = 0
           THEN /\ obj' = "built"
                /\ error' = NoError
                /\ samples_skipper' = MainSkipper(output_file)
                /\ output_file' = OpenForWriting(output_file)
           ELSE /\ obj' = "failed"
                /\ error' = [kind |-> "AssertionError", key |-> RequiredKeys(audio_iterator)[k]]
                /\ UNCHANGED <<samples_skipper, output_file>>
    /\ pc' = "unstarted"
    /\ pos' = 1
    /\ cur' = NoCur
    /\ at_yield' = TRUE
    /\ ids' = <<>>
    /\ events' = <<>>
    /\ UNCHANGED <<env_vars, attached_before>>

\* main(): writer.writerow for the next record the Transcriber has returned
WriteRow ==
    /\ run > 0
    /\ obj = "built"
    /\ at_yield
    /\ written < Len(ids)
    /\ written' = written + 1
    /\ output_file' = [output_file EXCEPT
                          !.lines = Append(@, ArtifactRow(Header, ids[written + 1]))]
    /\ UNCHANGED <<env_vars, obj, error, samples_skipper, iter_vars, attached_before,
                   run, prior_ids>>

\* main() returns: every record was written and the file is closed
Completed ==
    /\ run > 0
    /\ obj = "built"
    /\ pc = "done"
    /\ written = Len(ids)
    /\ obj' = "none"
    /\ UNCHANGED <<env_vars, output_file, error, samples_skipper, iter_vars,
                   attached_before, driver_vars>>

\* the job is interrupted: the process ends, the output file keeps the lines
\* that had reached the disk (a prefix of those written)
Interrupted ==
    /\ run > 0
    /\ obj = "built"
    /\ at_yield
    /\ pc \in {"unstarted", "running", "done"}
    /\ obj' = "none"
    /\ \E n \in 0..Len(output_file.lines) :
          output_file' = [output_file EXCEPT !.lines = SubSeq(@, 1, n)]
    /\ UNCHANGED <<env_vars, error, samples_skipper, iter_vars, attached_before,
                   driver_vars>>

\* an exception of the iterator leaves main(): the with block closes the file
\* with the rows written so far
Failed ==
    /\ run > 0
    /\ obj = "built"
    /\ pc = "raised"
    /\ obj' = "none"
    /\ UNCHANGED <<env_vars, output_file, error, samples_skipper, iter_vars,
                   attached_before, driver_vars>>

InitDriver ==
    /\ Init
    /\ ~output_file.exists

NextDriver ==
    \/ Main
    \/ VoxRow
    \/ LibriFile
    \/ LibriChunk
    \/ Exhausted
    \/ WriteRow
    \/ Completed
    \/ Interrupted
    \/ Failed

SpecDriver == InitDriver /\ [][NextDriver]_vars

----------------------------------------------------------------------------
(* Properties *)

\* the skip set did not change while the records were produced: a skipper built
\* from the resume artifact was attached before the first pull
AttachedBeforeIteration == attached_before /\ samples_skipper.attached

\* the id of the k-th row / file of the corpus
CorpusId(k) ==
    IF audio_iterator = "voxpopuli" THEN VoxRowId(corpus[k]) ELSE LibriRowId(corpus[k])

\* the Librilight utterance in cur has been dealt with (skipped, yielded whole,
\* or its chunk loop has ended)
UtteranceDone ==
    /\ audio_iterator = "librilight"
    /\ cur.row_id # <<>>
    /\ ~cur.chunking

\* the file of the utterance in cur decodes at the target rate to more than
\* max_len frames, and splitting is enabled
LongUtterance ==
    /\ cur.disk.exists
    /\ cur.disk.rate = sampling_rate
    /\ cur.disk.frames > MaxSeconds * sampling_rate
    /\ ConfGet(config, "split_if_longer_than_30s", TRUE)

\* ceil(L / max_len)
CeilDiv(L, max_len) == CHOOSE n \in 0..L : n * max_len >= L /\ (n - 1) * max_len < L

\* the chunk base__i of an utterance of L frames: its id and its slice
\* [i*max_len, min((i+1)*max_len, L))
ExpectedChunk(base, i, L) ==
    LET max_len == MaxSeconds * sampling_rate
    IN  [id |-> base \o <<"", Str(i)>>,
         raw |-> [from |-> i * max_len,
                  to |-> IF (i + 1) * max_len <= L THEN (i + 1) * max_len ELSE L],
         sampling_rate |-> sampling_rate]

\* the chunks of the utterance in cur whose chunk id is not marked done
MissingChunks ==
    LET L == cur.disk.frames
        n == CeilDiv(L, MaxSeconds * sampling_rate)
    IN  {ExpectedChunk(cur.row_id, i, L) : i \in
            {i \in 0..(n - 1) :
                (cur.row_id \o <<"", Str(i)>>) \notin IdColumn(output_file.lines)}}

\* C1: when a skipper built from the resume artifact was attached before
\* iteration, no record yielded during the pass (by either adapter) has an id
\* that appears in the id column of the artifact.
C1_NoYieldOfGeneratedId ==
    AttachedBeforeIteration =>
        \A k \in 1..Len(ids) : ids[k] \notin IdColumn(output_file.lines)

\* a pass has ended in which an id of the corpus was in the artifact and
\* another record was yielded
C1_Witness ==
    /\ AttachedBeforeIteration
    /\ pc = "done"
    /\ Len(ids) > 0
    /\ \E k \in 1..Len(corpus) : CorpusId(k) \in IdColumn(output_file.lines)

\* C2 as stated: for a long utterance with splitting enabled, the records yielded
\* are exactly the chunks whose chunk id is not marked done, each with its
\* original index and slice (whatever else the skip set holds).
C2_Original ==
    (UtteranceDone /\ LongUtterance /\ AttachedBeforeIteration) =>
        /\ Range(cur.recs) = MissingChunks
        /\ Len(cur.recs) = Cardinality(MissingChunks)

\* C2 amended: for a long utterance with splitting enabled whose base id is not
\* itself in the skip set, the records yielded are exactly the chunks whose
\* chunk id is not marked done, in index order, each keeping its original index
\* i and its original slice [i*max_len, min((i+1)*max_len, L)).
C2_ChunkGranularResume ==
    (/\ UtteranceDone
     /\ LongUtterance
     /\ AttachedBeforeIteration
     /\ cur.row_id \notin IdColumn(output_file.lines)) =>
        /\ Range(cur.recs) = MissingChunks
        /\ Len(cur.recs) = Cardinality(MissingChunks)
        /\ \A j, k \in 1..Len(cur.recs) :
              j < k => cur.recs[j].raw.from < cur.recs[k].raw.from

\* a 62 second utterance whose chunks __0 and __1 are marked done: only chunk
\* __2, of 2 seconds, is yielded
C2_Witness ==
    /\ UtteranceDone
    /\ LongUtterance
    /\ AttachedBeforeIteration
    /\ cur.disk.frames = 62 * sampling_rate
    /\ {cur.row_id \o <<"", "0">>, cur.row_id \o <<"", "1">>} \subseteq IdColumn(output_file.lines)
    /\ Len(cur.recs) = 1
    /\ cur.recs[1].id = cur.row_id \o <<"", "2">>
    /\ Shape(cur.recs[1].raw) = 2 * sampling_rate

\* C3 as stated: for a long utterance, whether the base id is in the skip set
\* does not change which chunks are yielded: the ids yielded are those of the
\* chunks not marked done.
C3_Original ==
    (UtteranceDone /\ LongUtterance /\ AttachedBeforeIteration) =>
        {cur.recs[k].id : k \in 1..Len(cur.recs)} = {c.id : c \in MissingChunks}

\* C3 amended: the skip check is made once on the base id, before the file is
\* read, and then once per chunk id.  When the base id is in the skip set the
\* file is not read and no record of the utterance is yielded, whatever its
\* length and its chunk ids; when it is not, the ids yielded for a long
\* utterance are those of the chunks not marked done.
C3_BaseCheckThenPerChunk ==
    (UtteranceDone /\ AttachedBeforeIteration) =>
        IF cur.row_id \in IdColumn(output_file.lines)
        THEN /\ cur.recs = <<>>
             /\ \A k \in 1..Len(events) : events[k].op # "_read_audio_file"
        ELSE LongUtterance =>
                {cur.recs[k].id : k \in 1..Len(cur.recs)} = {c.id : c \in MissingChunks}

\* a long utterance whose base id is in the skip set while one of its chunk ids
\* is not: nothing is yielded for it
C3_Witness ==
    /\ UtteranceDone
    /\ LongUtterance
    /\ AttachedBeforeIteration
    /\ cur.row_id \in IdColumn(output_file.lines)
    /\ MissingChunks # {}
    /\ cur.recs = <<>>

\* C4: with splitting enabled and no skipper, an utterance of L > max_len frames
\* yields exactly ceil(L/max_len) chunks, every chunk but the last of max_len
\* frames, the last of L - (num_chunks-1)*max_len frames, and the chunk ranges
\* partition [0, L) without gap or overlap.
C4_ChunksPartition ==
    (UtteranceDone /\ LongUtterance /\ ~samples_skipper.attached) =>
        LET L == cur.disk.frames
            max_len == MaxSeconds * sampling_rate
            n == Len(cur.recs)
        IN  /\ n = CeilDiv(L, max_len)
            /\ \A k \in 1..(n - 1) : Shape(cur.recs[k].raw) = max_len
            /\ Shape(cur.recs[n].raw) = L - (n - 1) * max_len
            /\ cur.recs[1].raw.from = 0
            /\ \A k \in 1..(n - 1) : cur.recs[k + 1].raw.from = cur.recs[k].raw.to
            /\ cur.recs[n].raw.to = L

\* a 62 second utterance was split in three chunks, the last of 2 seconds
C4_Witness ==
    /\ UtteranceDone
    /\ LongUtterance
    /\ ~samples_skipper.attached
    /\ cur.disk.frames = 62 * sampling_rate
    /\ Len(cur.recs) = 3
    /\ Shape(cur.recs[3].raw) = 2 * sampling_rate

\* the adapter enforces the maximum duration: truncation (Voxpopuli) or
\* splitting (Librilight) is enabled
DurationEnforced ==
    \/ audio_iterator = "voxpopuli" /\ ConfGet(config, "truncate_exceeding_30s", TRUE)
    \/ audio_iterator = "librilight" /\ ConfGet(config, "split_if_longer_than_30s", TRUE)

\* C5: with truncation (Voxpopuli) or splitting (Librilight) enabled, every
\* yielded record has at most 30 * sampling_rate samples, whatever the length of
\* the file.
C5_MaxDuration ==
    DurationEnforced =>
        \A k \in 1..Len(cur.recs) : Shape(cur.recs[k].raw) <= 30 * sampling_rate

\* a Voxpopuli file a frame longer than 30 seconds was yielded truncated to 30
\* seconds
C5_Witness ==
    /\ audio_iterator = "voxpopuli"
    /\ DurationEnforced
    /\ Len(cur.recs) = 1
    /\ cur.disk.frames = 30 * sampling_rate + 1
    /\ Shape(cur.recs[1].raw) = 30 * sampling_rate

\* C6: a job restarted on the same output file does not re-process completed
\* utterances: in a restarted run every id the output file held when the run
\* started is still in the file, the iterator has a skipper built from it, and
\* no record with such an id is fed to the Transcriber again.
C6_RestartDoesNotReprocess ==
    (run >= 2 /\ obj = "built") =>
        /\ prior_ids \subseteq IdColumn(output_file.lines)
        /\ prior_ids # {} => samples_skipper.attached
        /\ \A k \in 1..Len(ids) : ids[k] \notin prior_ids

\* the language of a manifest row: the token after the last underscore of its
\* event id
LastToken(event_id) == event_id[Len(event_id)]

\* the skip set in force during the whole pass: that of the artifact when the
\* skipper was attached before iteration, empty when none was ever attached
SteadySkipper == AttachedBeforeIteration \/ ~samples_skipper.attached

SteadySkipSet ==
    IF samples_skipper.attached THEN IdColumn(output_file.lines) ELSE {}

\* C7: VoxpopuliIterator never yields a record for a row whose language (the
\* token after the last underscore of event_id) differs from the configured
\* lang, and a complete pass yields, in manifest order, every row of that
\* language whose id is not skipped.
C7_LanguageFilter ==
    audio_iterator = "voxpopuli" =>
        /\ \A k \in 1..Len(events) :
              events[k].op = "yield" =>
                  /\ LastToken(corpus[pos - 1].event_id) = config["lang"]
                  /\ events[k].id = corpus[pos - 1].event_id \o corpus[pos - 1].segment_no
        /\ (pc = "done" /\ SteadySkipper) =>
              LET wanted[k \in 0..Len(corpus)] ==
                      IF k = 0 THEN <<>>
                      ELSE IF /\ LastToken(corpus[k].event_id) = config["lang"]
                              /\ (corpus[k].event_id \o corpus[k].segment_no) \notin SteadySkipSet
                           THEN Append(wanted[k - 1], corpus[k].event_id \o corpus[k].segment_no)
                           ELSE wanted[k - 1]
              IN  ids = wanted[Len(corpus)]

\* a complete pass with lang it over a manifest that holds a row of language it
\* and a row whose event id holds the token it before its language fr: only the
\* first is yielded
C7_Witness ==
    /\ audio_iterator = "voxpopuli"
    /\ pc = "done"
    /\ SteadySkipper
    /\ config["lang"] = "it"
    /\ \E k \in 1..Len(corpus) :
          Len(corpus[k].event_id) = 3 /\ corpus[k].event_id[2] = "it"
    /\ Len(ids) = 1

\* C8: in VoxpopuliIterator the skip check precedes the audio read: every read
\* made for a row comes after a should_skip_sample call on that row's id, and
\* no read is made for a row whose id is in the skip set.
C8_SkipCheckBeforeRead ==
    audio_iterator = "voxpopuli" =>
        \A k \in 1..Len(events) :
            events[k].op = "_read_audio_file" =>
                /\ \E j \in 1..(k - 1) :
                      events[j].op = "should_skip_sample" /\ events[j].id = events[k].id
                /\ AttachedBeforeIteration => events[k].id \notin IdColumn(output_file.lines)

\* a row of the configured language whose id is in the skip set was examined:
\* the skip check was made and nothing was read
C8_Witness ==
    /\ audio_iterator = "voxpopuli"
    /\ AttachedBeforeIteration
    /\ pos > 1
    /\ LastToken(corpus[pos - 1].event_id) = config["lang"]
    /\ CorpusId(pos - 1) \in IdColumn(output_file.lines)
    /\ events = <<[op |-> "should_skip_sample", id |-> CorpusId(pos - 1)]>>

\* the keys the adapters require
Required ==
    IF audio_iterator = "voxpopuli" THEN {"lang", "tsv_segments"} ELSE {"basedir"}

\* C9: required configuration keys are validated at construction: when one is
\* missing the construction fails with an error that names a missing key, no
\* iterator object is produced and no record is ever yielded; an iterator that
\* exists (and so any iteration) has all its required keys.
C9_EagerValidation ==
    /\ obj = "built" => Required \subseteq DOMAIN config
    /\ ~(Required \subseteq DOMAIN config) =>
          /\ obj \in {"none", "failed"}
          /\ pc = "unstarted"
          /\ ids = <<>>
    /\ obj = "failed" =>
          /\ error.kind = "AssertionError"
          /\ error.key \in Required \ DOMAIN config

\* the construction of a VoxpopuliIterator from a configuration with
\* tsv_segments and without lang has failed with an error naming lang
C9_Witness ==
    /\ audio_iterator = "voxpopuli"
    /\ DOMAIN config = {"tsv_segments"}
    /\ obj = "failed"
    /\ error = [kind |-> "AssertionError", key |-> "lang"]

\* the artifact is a TSV with a header row that has an id column
ExpectedSchema(file) ==
    /\ file.exists
    /\ Len(file.lines) > 0
    /\ IdField \in Range(file.lines[1])

\* C10: constructing the file-backed skipper from an artifact that does not
\* have the expected schema fails: a skipper is attached only when the artifact
\* is a TSV with a header row that has an id column.
C10_MalformedArtifactFails ==
    samples_skipper.attached => ExpectedSchema(output_file)

\* the audio file of the row / file in cur has been handed to _read_audio_file
FileRead ==
    \E k \in 1..Len(events) :
        events[k].op = "_read_audio_file" /\ events[k].id = cur.row_id

\* C11: a file whose intrinsic rate differs from the target rate makes the read
\* fail at once with the rate-mismatch assertion and no record is yielded for it;
\* every record yielded carries the target rate and holds frames of a file of
\* exactly that rate, as they are in the file (no resampling)
C11_RateMismatchFails ==
    /\ (FileRead /\ cur.disk.exists /\ cur.disk.rate # sampling_rate) =>
            /\ pc = "raised"
            /\ error = [kind |-> "AssertionError", key |-> "sampling rate"]
            /\ cur.recs = <<>>
            /\ events[Len(events)].op = "_read_audio_file"
    /\ \A k \in 1..Len(cur.recs) :
            /\ cur.recs[k].sampling_rate = sampling_rate
            /\ cur.disk.exists
            /\ cur.disk.rate = sampling_rate
            /\ 0 <= cur.recs[k].raw.from
            /\ cur.recs[k].raw.from <= cur.recs[k].raw.to
            /\ cur.recs[k].raw.to <= cur.disk.frames

\* a file of another rate was read after a record had been yielded: the pass
\* ends with the assertion error
C11_Witness ==
    /\ FileRead
    /\ cur.disk.exists
    /\ cur.disk.rate # sampling_rate
    /\ cur.disk.frames > 0
    /\ pc = "raised"
    /\ Len(ids) > 0

\* C12: the ids of the records yielded within one pass of one adapter are pairwise
\* distinct, whatever manifest or speaker/book/file tree the adapter is given
C12_IdsPairwiseDistinct ==
    \A i, j \in 1..Len(ids) : i # j => ids[i] # ids[j]

\* C13: every record yielded has a non-empty samples sequence, whatever the
\* length of the decoded file (zero samples included) and also for the last
\* chunk of a split utterance
C13_SamplesNonEmpty ==
    \A k \in 1..Len(cur.recs) : Shape(cur.recs[k].raw) > 0

\* a step of the generator: a row, file or chunk is examined, or the loops end
Pull == iter_vars' # iter_vars

\* the skipper attached when the step is taken would skip the id
InAttached(id) == samples_skipper.attached /\ id \in samples_skipper.generated_ids

\* a pull consults the skipper attached at that moment and no other: what it
\* reads or yields is not in that skipper's set, what it skips is, and with no
\* skipper attached nothing is skipped
PullUsesAttached ==
    Pull =>
        /\ samples_skipper' = samples_skipper
        /\ \A k \in 1..Len(events') :
               events'[k].op \in {"_read_audio_file", "yield"} => ~InAttached(events'[k].id)
        /\ (events' # <<>> /\ events'[Len(events')].op = "should_skip_sample") =>
               InAttached(events'[Len(events')].id)

\* an attach leaves the generator where it is and replaces the skipper by the one
\* of the artifact given: whatever was attached before, the same artifact again
\* included, the skip set is that of the artifact
AttachReplaces ==
    /\ (samples_skipper' # samples_skipper \/ output_file' # output_file) => ~Pull
    /\ samples_skipper'.attached =>
           samples_skipper'.generated_ids = IdColumn(output_file'.lines)

\* C14: a skipper may be attached before iteration or between pulls; in any
\* sequence of attaches and pulls each candidate id is tested against the
\* skipper attached when it is examined and no other; with no skipper attached
\* nothing is skipped; attaching the skipper of the same artifact twice leaves
\* what one attach leaves
C14_AttachAndPull == [][PullUsesAttached /\ AttachReplaces]_vars

\* a skipper attached before iteration was replaced between two pulls: an id
\* yielded under the first is in the set of the second, and the pull after the
\* second attach has skipped a candidate
C14_Witness ==
    /\ attached_before
    /\ samples_skipper.attached
    /\ \E k \in 1..Len(ids) : ids[k] \in samples_skipper.generated_ids
    /\ events # <<>>
    /\ events[Len(events)].op = "should_skip_sample"
    /\ ~at_yield

\* the ids of all the segments of the file in cur, in index order
SegmentIds == [n \in 1..cur.num_chunks |-> SegmentId(cur.row_id[1], n - 1)]

\* the manifest adapter has dealt with every segment of the file in cur
GroupDone ==
    /\ audio_iterator = "yaml"
    /\ cur.row_id # <<>>
    /\ cur.num_chunks > 0
    /\ ~cur.chunking

\* the segment index at the end of a segment id
IndexOf(id) == CHOOSE n \in 0..9 : id = SegmentId(id[1], n)

====
